---- MODULE Spec2Model ----
(***************************************************************************)
(* Model of NSSSS/app.py: the Flask handlers register and submit_photo,    *)
(* the two tables User and PhotoSubmission, and the upload directory.      *)
(*                                                                         *)
(* Strings are sequences of one-character strings, so that re.match,       *)
(* rsplit, lower and secure_filename are computed character by character.  *)
(* Python's None is the value NoneVal, which is no sequence of characters. *)
(*                                                                         *)
(* Each request is served by one worker thread.  A step of a handler is    *)
(* one operation on shared state (a query, a commit, a file save, an       *)
(* os.path.exists, an os.remove) together with the local code around it;   *)
(* steps of different workers interleave freely.                           *)
(***************************************************************************)
EXTENDS Integers, Sequences, FiniteSets, TLC

\* ------------------------------------------------------------------ bounds

\* Requests received in one behaviour.
MaxRequests == 3

\* The threads that serve requests, a bound of the model: the development
\* server of line 173 starts a thread per request.  Every race of the handlers
\* is a race of two requests, one thread's step falling between two steps of
\* another.
Workers == {1, 2}

\* ----------------------------------------------------------------- strings

NoneVal == <<"None">>

Digits == {"0", "1", "2", "3", "4", "5", "6", "7", "8", "9"}
UpperLetters == <<"A", "B", "C", "D", "E", "F", "G", "H", "I", "J", "K", "L", "M",
                  "N", "O", "P", "Q", "R", "S", "T", "U", "V", "W", "X", "Y", "Z">>
LowerLetters == <<"a", "b", "c", "d", "e", "f", "g", "h", "i", "j", "k", "l", "m",
                  "n", "o", "p", "q", "r", "s", "t", "u", "v", "w", "x", "y", "z">>
Upper == {UpperLetters[i] : i \in 1..26}
Lowers == {LowerLetters[i] : i \in 1..26}
Whitespace == {" ", "\t", "\n"}

\* Python truthiness of a form value: None and '' are falsy.
Truthy(v) == v # NoneVal /\ v # <<>>

\* all([...]) over form values.
AllPresent(vs) == \A i \in 1..Len(vs) : Truthy(vs[i])

\* re.match(r'^[0-9]{2}[A-Z]{3}[0-9]{4}$', s): nine characters, and Python's $
\* also matches just before one trailing newline.
IdMatches(s) ==
    /\ Len(s) = 9 \/ (Len(s) = 10 /\ s[10] = "\n")
    /\ \A i \in {1, 2} : s[i] \in Digits
    /\ \A i \in {3, 4, 5} : s[i] \in Upper
    /\ \A i \in {6, 7, 8, 9} : s[i] \in Digits

\* str.lower(), one character.
LowerChar(c) ==
    IF c \in Upper THEN LowerLetters[CHOOSE i \in 1..26 : UpperLetters[i] = c] ELSE c

\* str.lower().
Lower(s) == [i \in 1..Len(s) |-> LowerChar(s[i])]

HasDot(s) == \E i \in 1..Len(s) : s[i] = "."

\* s.rsplit('.', 1)[1]: what follows the last dot of a string that has one.
AfterLastDot(s) ==
    LET last == CHOOSE i \in 1..Len(s) :
                    s[i] = "." /\ \A j \in (i + 1)..Len(s) : s[j] # "."
    IN  SubSeq(s, last + 1, Len(s))

ALLOWED_EXTENSIONS == {<<"p", "n", "g">>, <<"j", "p", "g">>, <<"j", "p", "e", "g">>}

allowed_file(filename) ==
    HasDot(filename) /\ Lower(AfterLastDot(filename)) \in ALLOWED_EXTENSIONS

\* filename.replace(os.sep, " ") on a POSIX host.
ReplaceSep(s) == [i \in 1..Len(s) |-> IF s[i] = "/" THEN " " ELSE s[i]]

\* "_".join(s.split()): runs of whitespace become one "_", none at the ends.
RECURSIVE SplitJoin(_, _, _)
SplitJoin(s, started, gap) ==
    IF s = <<>> THEN <<>>
    ELSE IF Head(s) \in Whitespace THEN SplitJoin(Tail(s), started, started)
    ELSE (IF gap THEN <<"_">> ELSE <<>>) \o <<Head(s)>> \o SplitJoin(Tail(s), TRUE, FALSE)

\* _filename_ascii_strip_re.sub("", s): drop what is not in [A-Za-z0-9_.-].
SafeChar(c) == c \in Upper \cup Lowers \cup Digits \cup {"_", ".", "-"}
AsciiStrip(s) == SelectSeq(s, SafeChar)

\* str.strip("._").
RECURSIVE LStrip(_)
LStrip(s) == IF s # <<>> /\ Head(s) \in {".", "_"} THEN LStrip(Tail(s)) ELSE s
RECURSIVE RStrip(_)
RStrip(s) ==
    IF s # <<>> /\ s[Len(s)] \in {".", "_"} THEN RStrip(SubSeq(s, 1, Len(s) - 1)) ELSE s

\* werkzeug.utils.secure_filename on ASCII input, POSIX host.
secure_filename(filename) ==
    RStrip(LStrip(AsciiStrip(SplitJoin(ReplaceSep(filename), FALSE, FALSE))))

\* ------------------------------------------------------------------ inputs

VitA == <<"2", "1", "B", "C", "E", "1", "2", "3", "4">>
VitB == <<"2", "2", "B", "C", "E", "0", "0", "0", "7">>
MailA == <<"a", "@", "x">>
MailB == <<"b", "@", "x">>

RegisterBase ==
    [kind |-> "register", fullName |-> <<"A">>, vitId |-> VitA, email |-> MailA,
     password |-> <<"p">>, confirmPassword |-> <<"p">>]

\* Forms that pass register's validation: two IDs and two emails, and an ID
\* with a trailing newline.
RegisterGood ==
    {[RegisterBase EXCEPT !.vitId = v, !.email = m] :
        v \in {VitA, VitB}, m \in {MailA, MailB}}
    \cup {[RegisterBase EXCEPT !.vitId = VitA \o <<"\n">>, !.email = MailB]}

\* Forms that fail it, each differing from RegisterBase in one field.
RegisterBad ==
    {[RegisterBase EXCEPT !.fullName = NoneVal],
     [RegisterBase EXCEPT !.vitId = NoneVal],
     [RegisterBase EXCEPT !.email = <<>>],
     [RegisterBase EXCEPT !.confirmPassword = NoneVal],
     [RegisterBase EXCEPT !.confirmPassword = <<"q">>],
     [RegisterBase EXCEPT !.vitId = <<"a", "b", "c", "1", "2", "3">>],
     [RegisterBase EXCEPT !.vitId = <<"2", "1", "b", "c", "e", "1", "2", "3", "4">>],
     [RegisterBase EXCEPT !.vitId = VitA \o <<"5">>]}

RegisterForms == RegisterGood \cup RegisterBad

NameAPng == <<"a", ".", "p", "n", "g">>

SubmitBase ==
    [kind |-> "submit_photo", fullName |-> <<"A">>, vitId |-> VitA,
     photoTitle |-> <<"T">>, theme |-> <<"N">>, description |-> NoneVal,
     hasFile |-> TRUE, filename |-> NameAPng]

\* Requests that pass submit_photo's validation.  "../a.png" is stored under
\* the same name as "a.png".
SubmitGood ==
    {[SubmitBase EXCEPT !.filename = n] :
        n \in {NameAPng,
               <<".", ".", "/", "a", ".", "p", "n", "g">>,
               <<"m", "y", " ", "p", ".", "J", "P", "G">>}}

\* Requests that fail it, each differing from SubmitBase in one field.
SubmitBad ==
    {[SubmitBase EXCEPT !.fullName = <<>>],
     [SubmitBase EXCEPT !.vitId = NoneVal],
     [SubmitBase EXCEPT !.photoTitle = NoneVal],
     [SubmitBase EXCEPT !.theme = <<>>],
     [SubmitBase EXCEPT !.vitId = <<"a", "b", "c", "1", "2", "3">>],
     [SubmitBase EXCEPT !.hasFile = FALSE, !.filename = NoneVal],
     [SubmitBase EXCEPT !.filename = <<>>],
     [SubmitBase EXCEPT !.filename = <<"a", ".", "g", "i", "f">>],
     [SubmitBase EXCEPT !.filename = <<"p", "n", "g">>],
     [SubmitBase EXCEPT !.filename = <<"a", ".", "p", "n", "g", ".">>]}

SubmitForms == SubmitGood \cup SubmitBad

\* ------------------------------------------------------------------- state

VARIABLES
    users,      \* the User table: a set of rows
    photos,     \* the PhotoSubmission table: a set of rows
    files,      \* the upload directory: a set of [name, whole]
    pc,         \* per worker: where its handler stands
    req,        \* per worker: the form of the request it serves (or served last)
    resp,       \* per worker: the response sent, NoResp while none is
    started,    \* requests received so far
    failed      \* a storage or file operation has raised an environment failure

vars == <<users, photos, files, pc, req, resp, started, failed>>

NoReq == [kind |-> "none"]
NoResp == [status |-> 0, handled |-> FALSE, exc |-> "none", message |-> "none"]

\* return jsonify({'message': ...}), status: the handler's own answer.
Answer(status, message, exc) ==
    [status |-> status, handled |-> TRUE, exc |-> exc, message |-> message]

\* An exception that leaves the handler: Flask answers 500 itself, with no
\* JSON message of the handler's.
Escaped(exc) ==
    [status |-> 500, handled |-> FALSE, exc |-> exc, message |-> "none"]

FileNames == {f.name : f \in files}

\* open(path, "wb") and the copy: the file replaces whatever the name held;
\* whole tells whether the copy went through.
WriteFile(dir, name, whole) ==
    {f \in dir : f.name # name} \cup {[name |-> name, whole |-> whole]}

\* os.remove(path).
RemoveFile(dir, name) == {f \in dir : f.name # name}

\* The integer primary key SQLite assigns: one more than the largest stored.
NextId(table) ==
    IF table = {} THEN 1
    ELSE 1 + (CHOOSE m \in {t.id : t \in table} : \A t \in table : t.id <= m)

\* unique=True on User.vit_id and User.email, enforced at the INSERT.
UniqueViolationNever(row, table) == FALSE
UniqueViolation(row, table) ==
    \E u \in table : u.vit_id = row.vit_id \/ u.email = row.email

\* User(full_name=..., vit_id=..., email=..., password=...)
NewUserWrongPassword(f, table) ==
    [id |-> NextId(table), full_name |-> f.fullName, vit_id |-> f.vitId,
     email |-> f.email, password |-> <<>>]
NewUser(f, table) ==
    [id |-> NextId(table), full_name |-> f.fullName, vit_id |-> f.vitId,
     email |-> f.email, password |-> f.password]

\* PhotoSubmission(..., photo_filename=filename); timestamp is left to the
\* database default and is not modelled.
NewSubmissionClientName(f, table) ==
    [id |-> NextId(table), full_name |-> f.fullName, vit_id |-> f.vitId,
     photo_title |-> f.photoTitle, theme |-> f.theme,
     description |-> f.description,
     photo_filename |-> f.filename]
NewSubmission(f, table) ==
    [id |-> NextId(table), full_name |-> f.fullName, vit_id |-> f.vitId,
     photo_title |-> f.photoTitle, theme |-> f.theme,
     description |-> f.description,
     photo_filename |-> secure_filename(f.filename)]

Init ==
    /\ users = {}
    /\ photos = {}
    /\ files = {}
    /\ pc = [w \in Workers |-> "idle"]
    /\ req = [w \in Workers |-> NoReq]
    /\ resp = [w \in Workers |-> NoResp]
    /\ started = 0
    /\ failed = FALSE

\* A worker that serves no request takes the next one.
Free(w) == pc[w] \in {"idle", "done"} /\ started < MaxRequests

Take(w, f) ==
    /\ req' = [req EXCEPT ![w] = f]
    /\ started' = started + 1

Finish(w, r) ==
    /\ pc' = [pc EXCEPT ![w] = "done"]
    /\ resp' = [resp EXCEPT ![w] = r]

Goto(w, label) ==
    /\ pc' = [pc EXCEPT ![w] = label]
    /\ resp' = [resp EXCEPT ![w] = NoResp]

\* ---------------------------------------------------------------- register

\* Lines 71-80: the message of the 400 answer, or "ok".
RegisterValidateNoPasswordCheck(f) ==
    IF ~AllPresent(<<f.fullName, f.vitId, f.email, f.password, f.confirmPassword>>)
    THEN "All fields are required!"
    ELSE IF ~IdMatches(f.vitId) THEN "Invalid VIT ID format."
    ELSE "ok"
RegisterValidate(f) ==
    IF ~AllPresent(<<f.fullName, f.vitId, f.email, f.password, f.confirmPassword>>)
    THEN "All fields are required!"
    ELSE IF f.password # f.confirmPassword THEN "Passwords do not match!"
    ELSE IF ~IdMatches(f.vitId) THEN "Invalid VIT ID format."
    ELSE "ok"

\* Lines 64-80: read the form and validate it.
RegisterReceive(w) ==
    /\ Free(w)
    /\ \E f \in RegisterForms :
        /\ Take(w, f)
        /\ IF RegisterValidate(f) # "ok"
           THEN Finish(w, Answer(400, RegisterValidate(f), "none"))
           ELSE Goto(w, "query_id")
    /\ UNCHANGED <<users, photos, files, failed>>

\* User.query.filter_by(vit_id=vit_id).first()
FindByVitId(table, v) == {u \in table : u.vit_id = v}

\* User.query.filter_by(email=email).first()
FindByEmailNone(table, m) == {}
FindByEmail(table, m) == {u \in table : u.email = m}

Conflict409 == Answer(409, "User with this VIT ID or Email already exists!", "none")

\* Line 83, left operand of `or`.  The query is outside every try block: if it
\* raises, the exception leaves the handler.
RegisterQueryVitId(w) ==
    /\ pc[w] = "query_id"
    /\ \E fail \in BOOLEAN :
        IF fail
        THEN /\ Finish(w, Escaped("OperationalError"))
             /\ failed' = TRUE
        ELSE /\ IF FindByVitId(users, req[w].vitId) # {}
                THEN Finish(w, Conflict409)
                ELSE Goto(w, "query_email")
             /\ UNCHANGED failed
    /\ UNCHANGED <<users, photos, files, req, started>>

\* Line 83, right operand of `or`, evaluated when the left one found no row.
RegisterQueryEmail(w) ==
    /\ pc[w] = "query_email"
    /\ \E fail \in BOOLEAN :
        IF fail
        THEN /\ Finish(w, Escaped("OperationalError"))
             /\ failed' = TRUE
        ELSE /\ IF FindByEmail(users, req[w].email) # {}
                THEN Finish(w, Conflict409)
                ELSE Goto(w, "insert_user")
             /\ UNCHANGED failed
    /\ UNCHANGED <<users, photos, files, req, started>>

\* Lines 89-102: add and commit; any exception is caught, the session rolled
\* back (nothing of the failed INSERT is stored) and 500 answered.
RegisterCommit(w) ==
    /\ pc[w] = "insert_user"
    /\ LET row == NewUser(req[w], users) IN
       \E fail \in BOOLEAN :
        IF fail
        THEN /\ Finish(w, Answer(500, "Error registering user", "OperationalError"))
             /\ failed' = TRUE
             /\ UNCHANGED users
        ELSE IF UniqueViolation(row, users)
        THEN /\ Finish(w, Answer(500, "Error registering user", "IntegrityError"))
             /\ UNCHANGED <<users, failed>>
        ELSE /\ users' = users \cup {row}
             /\ Finish(w, Answer(201, "Registration successful!", "none"))
             /\ UNCHANGED failed
    /\ UNCHANGED <<photos, files, req, started>>

\* ------------------------------------------------------------ submit_photo

\* Lines 115-132 and 164-165: the message of the 400 answer, or "ok".
SubmitValidateAnyExtension(f) ==
    IF ~AllPresent(<<f.fullName, f.vitId, f.photoTitle, f.theme>>)
    THEN "Required fields are missing!"
    ELSE IF ~IdMatches(f.vitId) THEN "Invalid VIT ID format."
    ELSE IF ~f.hasFile THEN "No photo file part in the request!"
    ELSE IF f.filename = <<>> THEN "No selected photo file!"
    ELSE "ok"
SubmitValidate(f) ==
    IF ~AllPresent(<<f.fullName, f.vitId, f.photoTitle, f.theme>>)
    THEN "Required fields are missing!"
    ELSE IF ~IdMatches(f.vitId) THEN "Invalid VIT ID format."
    ELSE IF ~f.hasFile THEN "No photo file part in the request!"
    ELSE IF f.filename = <<>> THEN "No selected photo file!"
    ELSE IF ~allowed_file(f.filename)
    THEN "Invalid file type. Only PNG, JPG, JPEG are allowed!"
    ELSE "ok"

\* Lines 133-134: the name the upload is stored under in UPLOAD_FOLDER.
StoredName(f) == secure_filename(f.filename)

\* Lines 109-132: read the form and validate it.
SubmitReceive(w) ==
    /\ Free(w)
    /\ \E f \in SubmitForms :
        /\ Take(w, f)
        /\ IF SubmitValidate(f) # "ok"
           THEN Finish(w, Answer(400, SubmitValidate(f), "none"))
           ELSE Goto(w, "save")
    /\ UNCHANGED <<users, photos, files, failed>>

\* Lines 140-143: photo_file.save(file_path).  The save opens the path for
\* writing and copies the upload into it: it fails before the open (nothing
\* changes) or during the copy (a truncated file is left).
SubmitSave(w) ==
    /\ pc[w] = "save"
    /\ \E outcome \in {"saved", "open fails", "copy fails"} :
        IF outcome = "saved"
        THEN /\ files' = WriteFile(files, StoredName(req[w]), TRUE)
             /\ Goto(w, "insert_photo")
             /\ UNCHANGED failed
        ELSE /\ files' = IF outcome = "copy fails"
                         THEN WriteFile(files, StoredName(req[w]), FALSE)
                         ELSE files
             /\ Finish(w, Answer(500, "Error saving file", "OSError"))
             /\ failed' = TRUE
    /\ UNCHANGED <<users, photos, req, started>>

\* Lines 145-159: add and commit.  PhotoSubmission has no unique column and the
\* validated fields fill its NOT NULL ones, so the commit fails only for the
\* environment; the exception is caught and the session rolled back.
SubmitCommit(w) ==
    /\ pc[w] = "insert_photo"
    /\ \E fail \in BOOLEAN :
        IF fail
        THEN /\ Goto(w, "exists")
             /\ failed' = TRUE
             /\ UNCHANGED photos
        ELSE /\ photos' = photos \cup {NewSubmission(req[w], photos)}
             /\ Finish(w, Answer(201, "Photo submitted successfully!", "none"))
             /\ UNCHANGED failed
    /\ UNCHANGED <<users, files, req, started>>

DbError500 == Answer(500, "Error saving submission to database", "OperationalError")

\* Line 161: os.path.exists(file_path).
SubmitExists(w) ==
    /\ pc[w] = "exists"
    /\ IF StoredName(req[w]) \in FileNames
       THEN Goto(w, "remove")
       ELSE Finish(w, DbError500)
    /\ UNCHANGED <<users, photos, files, req, started, failed>>

\* Lines 162-163: os.remove(file_path), inside the except block: if the file
\* went away since the exists check, FileNotFoundError leaves the handler.
SubmitRemoveKeepsFile(w) ==
    /\ pc[w] = "remove"
    /\ Finish(w, DbError500)
    /\ UNCHANGED <<users, photos, files, req, started, failed>>
SubmitRemove(w) ==
    /\ pc[w] = "remove"
    /\ IF StoredName(req[w]) \in FileNames
       THEN /\ files' = RemoveFile(files, StoredName(req[w]))
            /\ Finish(w, DbError500)
       ELSE /\ Finish(w, Escaped("FileNotFoundError"))
            /\ UNCHANGED files
    /\ UNCHANGED <<users, photos, req, started, failed>>

\* ----------------------------------------------------------- specification

Next ==
    \E w \in Workers :
        \/ RegisterReceive(w)
        \/ RegisterQueryVitId(w)
        \/ RegisterQueryEmail(w)
        \/ RegisterCommit(w)
        \/ SubmitReceive(w)
        \/ SubmitSave(w)
        \/ SubmitCommit(w)
        \/ SubmitExists(w)
        \/ SubmitRemove(w)

Spec == Init /\ [][Next]_vars

\* ------------------------------------------------------------------ claims

Registering(w) == req[w].kind = "register"
Submitting(w) == req[w].kind = "submit_photo"

\* A form value that is missing or empty.
Blank(v) == v = NoneVal \/ v = <<>>

\* C1: in every reachable state no two stored User rows share an institutional
\* ID and no two share an email, also when two register requests both pass
\* the existence check before either commits.
C1_UsersUnique ==
    \A u1 \in users : \A u2 \in users :
        u1 # u2 => u1.vit_id # u2.vit_id /\ u1.email # u2.email

\* A register request passed both existence queries and its INSERT was then
\* refused: another request stored the same ID or email in between.
C1_RaceLost ==
    \E w \in Workers :
        /\ pc[w] = "done" /\ Registering(w)
        /\ resp[w].exc = "IntegrityError"
        /\ \E u \in users : u.vit_id = req[w].vitId \/ u.email = req[w].email

\* C2: when a submit_photo request has saved its file and its insert fails,
\* the failed insert adds no row, and the step in which the request answers
\* leaves status 500, no file under its stored name and no new row.
C2_FailedInsertLeavesNoFile ==
    [][\A w \in Workers :
        /\ (pc[w] = "insert_photo" /\ pc'[w] = "exists") => photos' = photos
        /\ (pc[w] = "exists" /\ pc'[w] = "remove") => photos' = photos
        /\ (pc[w] \in {"exists", "remove"} /\ pc'[w] = "done") =>
              /\ resp'[w].status = 500
              /\ secure_filename(req[w].filename) \notin {f.name : f \in files'}
              /\ photos' = photos]_vars

\* A submit_photo request whose insert failed has answered 500 from its except
\* block, and no file is stored under its name.
C2_Compensated ==
    \E w \in Workers :
        /\ pc[w] = "done" /\ Submitting(w)
        /\ resp[w].status = 500 /\ resp[w].handled
        /\ resp[w].exc = "OperationalError"
        /\ secure_filename(req[w].filename) \notin FileNames

\* C3: a register request that passed validation and whose existence query
\* returns while a stored User has its institutional ID (first query) or its
\* email (second query) answers 409 in that step and leaves the User table
\* unchanged.
C3_DuplicateAnswers409 ==
    [][\A w \in Workers :
        /\ ( /\ pc[w] = "query_id" /\ pc'[w] # "query_id"
             /\ resp'[w].exc = "none"
             /\ \E u \in users : u.vit_id = req[w].vitId )
           => (pc'[w] = "done" /\ resp'[w].status = 409 /\ users' = users)
        /\ ( /\ pc[w] = "query_email" /\ pc'[w] # "query_email"
             /\ resp'[w].exc = "none"
             /\ \E u \in users : u.email = req[w].email )
           => (pc'[w] = "done" /\ resp'[w].status = 409 /\ users' = users)]_vars

\* A request answered 409 for its email alone: a stored row has its email and
\* no stored row has its institutional ID.
C3_EmailDuplicateRefused ==
    \E w \in Workers :
        /\ pc[w] = "done" /\ Registering(w) /\ resp[w].status = 409
        /\ \E u \in users : u.email = req[w].email
        /\ \A u \in users : u.vit_id # req[w].vitId
        /\ Cardinality(users) = 1

\* C4: a register request that fails to create its row because its ID or email
\* is already held by a stored User is answered 409, never 500.
C4_ConflictAnswered409 ==
    \A w \in Workers :
        (pc[w] = "done" /\ Registering(w) /\ resp[w].exc = "IntegrityError")
            => resp[w].status = 409

\* The five fields present, the passwords equal, the ID well formed.
RegisterWellFormed(f) ==
    /\ ~Blank(f.fullName) /\ ~Blank(f.vitId) /\ ~Blank(f.email)
    /\ ~Blank(f.password) /\ ~Blank(f.confirmPassword)
    /\ f.password = f.confirmPassword
    /\ IdMatches(f.vitId)

\* C5: a well-formed register request is not answered 400; an existence query
\* that returns and finds no row lets it go on; and its commit, when no
\* stored row has its ID or email and the storage does not fail, answers 201
\* and adds exactly one row, holding the submitted name, ID, email and
\* password, to an otherwise unchanged table.
C5_FreshRegistrationStored ==
    [][\A w \in Workers :
        /\ (req'[w].kind = "register" /\ RegisterWellFormed(req'[w]))
              => resp'[w].status # 400
        /\ ( /\ pc[w] = "query_id" /\ pc'[w] # "query_id"
             /\ resp'[w].exc = "none"
             /\ \A u \in users : u.vit_id # req[w].vitId )
           => pc'[w] = "query_email"
        /\ ( /\ pc[w] = "query_email" /\ pc'[w] # "query_email"
             /\ resp'[w].exc = "none"
             /\ \A u \in users : u.email # req[w].email )
           => pc'[w] = "insert_user"
        /\ ( /\ pc[w] = "insert_user" /\ pc'[w] # "insert_user"
             /\ resp'[w].exc # "OperationalError"
             /\ \A u \in users :
                   u.vit_id # req[w].vitId /\ u.email # req[w].email )
           => /\ resp'[w].status = 201
              /\ \E row \in users' :
                    /\ row \notin users
                    /\ users' = users \cup {row}
                    /\ row.full_name = req[w].fullName
                    /\ row.vit_id = req[w].vitId
                    /\ row.email = req[w].email
                    /\ row.password = req[w].password]_vars

\* A second registration, with a fresh ID and email, was answered 201 and its
\* row is stored next to the first.
C5_SecondUserStored ==
    \E w \in Workers :
        /\ pc[w] = "done" /\ Registering(w) /\ resp[w].status = 201
        /\ Cardinality(users) = 2
        /\ \E u \in users :
              /\ u.id = 2 /\ u.vit_id = req[w].vitId /\ u.email = req[w].email
              /\ u.password = req[w].password /\ u.full_name = req[w].fullName

\* A field missing or empty, the passwords different, or the ID malformed.
RegisterMalformed(f) ==
    \/ Blank(f.fullName) \/ Blank(f.vitId) \/ Blank(f.email)
    \/ Blank(f.password) \/ Blank(f.confirmPassword)
    \/ f.password # f.confirmPassword
    \/ ~IdMatches(f.vitId)

\* C6: a register request with a missing or empty field, different passwords or
\* a malformed ID is answered 400 in the step that receives it, whatever is
\* stored, and the step that receives a request leaves the User table unchanged.
C6_MalformedRegisterIs400 ==
    [][/\ \A w \in Workers :
             (req'[w].kind = "register" /\ RegisterMalformed(req'[w]))
                => (pc'[w] = "done" /\ resp'[w].status = 400)
       /\ \A w \in Workers :
             (req'[w].kind = "register" /\ resp'[w].status = 400
              /\ resp[w].status # 400)
                => (started' # started /\ users' = users)
       /\ started' # started => users' = users]_vars

\* A request with mismatched passwords was answered 400 although a stored row
\* has its institutional ID and email.
C6_MalformedDuplicateIs400 ==
    \E w \in Workers :
        /\ pc[w] = "done" /\ Registering(w) /\ resp[w].status = 400
        /\ req[w].password # req[w].confirmPassword
        /\ \E u \in users : u.vit_id = req[w].vitId /\ u.email = req[w].email

\* A required text field missing, the ID malformed, no file part, an empty
\* filename, no dot in it, or an extension other than png, jpg, jpeg.
SubmitMalformed(f) ==
    \/ Blank(f.fullName) \/ Blank(f.vitId) \/ Blank(f.photoTitle) \/ Blank(f.theme)
    \/ ~IdMatches(f.vitId)
    \/ ~f.hasFile
    \/ f.filename = <<>>
    \/ ~HasDot(f.filename)
    \/ Lower(AfterLastDot(f.filename)) \notin
          {<<"p", "n", "g">>, <<"j", "p", "g">>, <<"j", "p", "e", "g">>}

\* C7: a submit_photo request with any of these defects is answered 400 in the
\* step that receives it; a 400 is only ever answered in such a step, and the
\* step writes and overwrites no file and adds no PhotoSubmission row.
C7_Rejected400WritesNothing ==
    [][/\ \A w \in Workers :
             (req'[w].kind = "submit_photo" /\ SubmitMalformed(req'[w]))
                => (pc'[w] = "done" /\ resp'[w].status = 400)
       /\ \A w \in Workers :
             (req'[w].kind = "submit_photo" /\ resp'[w].status = 400
              /\ resp[w].status # 400)
                => (started' # started /\ files' = files /\ photos' = photos)
       /\ started' # started => (files' = files /\ photos' = photos)]_vars

\* "a.gif" was answered 400 while the upload directory holds a.png, whole.
C7_GifRejected ==
    \E w \in Workers :
        /\ pc[w] = "done" /\ Submitting(w) /\ resp[w].status = 400
        /\ req[w].filename = <<"a", ".", "g", "i", "f">>
        /\ [name |-> NameAPng, whole |-> TRUE] \in files

\* The four text fields present, the ID well formed, a file with an allowed
\* extension attached.
SubmitWellFormed(f) == ~SubmitMalformed(f)

C9_AnsweredInsideHandler ==
    \A w \in Workers :
        pc[w] = "done" =>
            /\ resp[w].handled
            /\ Registering(w) => resp[w].status \in {201, 400, 409, 500}
            /\ Submitting(w) => resp[w].status \in {201, 400, 500}

\* C10: whenever no submit_photo request is in flight, every stored
\* PhotoSubmission row's filename names a file in the upload directory.
C10_RowsNameStoredFiles ==
    (\A w \in Workers : Submitting(w) => pc[w] = "done")
        => \A p \in photos : p.photo_filename \in FileNames

====
